---------------------------- MODULE Spec2Model ----------------------------
(***************************************************************************)
(* Model of the read-only query gatekeeper and the bounded executor of     *)
(* the DuckDB query API (src/app/services/query_service.py, src/app/db.py, *)
(* src/app/api/routes_query.py).                                           *)
(*                                                                         *)
(* A SQL text is a sequence of lexical atoms: a maximal run of word        *)
(* characters is one atom ("select", "DROP", "dropx"), every other atom is *)
(* one delimiter (" ", ";", "'", the double quote, "/*", "*/", "(", ")").  *)
(* Two word atoms are never adjacent, since a maximal run is one atom.     *)
(***************************************************************************)
EXTENDS Integers, Sequences, FiniteSets, TLC

\* ------------------------------------------------------------------ bounds

\* Longest SQL text, in atoms, the gatekeeper specification enumerates.
MaxLen == 4

\* Requests the executor specification follows.
NumReqs == 2

\* Threads of the event loop's default executor.
MaxWorkers == 1

\* Last instant, in seconds, of the token specification.
MaxClock == 900

\* Seconds for which a token the credential issues is valid.
FreshLifetime == 600

\* Longest FABRIC_TABLES list of the startup specification.
MaxTables == 2

\* Most calls of close_connection the startup specification follows.
MaxCloses == 2

\* Threads of the executor in the specification of the shared handle, where
\* two jobs must be able to run at once.
HandleWorkers == 2

\* Most rows the engine holds for a statement of the single-request
\* specification.
MaxTableRows == 3

\* ------------------------------------------------------------- the atoms

WordAtoms == {"select", "WITH", "DROP", "dropx"}

DelimAtoms == {" ", ";", "'", "\"", "/*", "*/"}

\* The atoms the gatekeeper specification types texts from.
Atoms == WordAtoms \cup DelimAtoms

\* Word atoms that only the executor's sample statements use.
ExtraWords == {"COUNT", "xcount", "t", "group", "by"}

IsWord(a) == a \in WordAtoms \cup ExtraWords

\* str.lower() on one atom: the upper-case words of the alphabet fold to
\* their lower-case spelling, every other atom is its own lower case.
Lower(a) ==
    CASE a = "DROP" -> "drop"
      [] a = "WITH" -> "with"
      [] a = "COUNT" -> "count"
      [] OTHER -> a

LowerSeq(s) == [i \in 1..Len(s) |-> Lower(s[i])]

\* A text that is the atomisation of some string: no two adjacent words.
WellFormed(s) == \A i \in 1..(Len(s) - 1) : ~(IsWord(s[i]) /\ IsWord(s[i + 1]))

\* str.strip(): leading and trailing whitespace removed.
RECURSIVE LStrip(_)
LStrip(s) == IF s # <<>> /\ Head(s) = " " THEN LStrip(Tail(s)) ELSE s

RECURSIVE RStrip(_)
RStrip(s) ==
    IF s # <<>> /\ s[Len(s)] = " " THEN RStrip(SubSeq(s, 1, Len(s) - 1)) ELSE s

Strip(s) == RStrip(LStrip(s))

\* ------------------------------------------------------- sqlparse's lexer

\* Least j > i with s[j] = a, or 0 when there is none.
NextIndexOf(s, a, i) ==
    LET js == {j \in (i + 1)..Len(s) : s[j] = a}
    IN  IF js = {} THEN 0 ELSE CHOOSE j \in js : \A k \in js : j <= k

Tok(ttype, value) == [ttype |-> ttype, value |-> value]

\* The lexer tries its rules at the current position, in order: a block
\* comment up to the first closing mark, a quoted string or quoted symbol up
\* to the next quote of the same kind, whitespace, punctuation, a word.  An
\* opening mark with no closing one is not a comment (its characters are
\* operators), and a quote with no partner is a one-character Error token;
\* lexing goes on after it.
RECURSIVE LexFrom(_, _)
LexFrom(s, i) ==
    IF i > Len(s) THEN <<>>
    ELSE
      LET a == s[i]
          close == IF a \in {"'", "\""} THEN NextIndexOf(s, a, i)
                   ELSE IF a = "/*" THEN NextIndexOf(s, "*/", i)
                   ELSE 0
          last == IF close = 0 THEN i ELSE close
          ttype ==
            CASE a = "/*" -> IF close = 0 THEN "Operator" ELSE "Comment.Multiline"
              [] a = "*/" -> "Operator"
              [] a = "'" -> IF close = 0 THEN "Error" ELSE "String.Single"
              [] a = "\"" -> IF close = 0 THEN "Error" ELSE "String.Symbol"
              [] a = " " -> "Whitespace"
              [] a \in {";", "(", ")"} -> "Punctuation"
              [] OTHER -> "Name"
      IN  <<Tok(ttype, SubSeq(s, i, last))>> \o LexFrom(s, last + 1)

Lex(s) == LexFrom(s, 1)

IsWhitespace(t) == t.ttype = "Whitespace"

\* StatementSplitter._change_splitlevel for the tokens of the alphabet.
ChangeSplitLevel(t) ==
    IF t.ttype = "Punctuation" /\ t.value = <<"(">> THEN 1
    ELSE IF t.ttype = "Punctuation" /\ t.value = <<")">> THEN -1
    ELSE 0

\* StatementSplitter.process: a statement ends at a ";" at level <= 0; the
\* whitespace and line comments after it still belong to it, and the next
\* other token opens the next statement.  A pending statement is yielded
\* unless it is whitespace only.
RECURSIVE SplitFrom(_, _, _, _, _, _)
SplitFrom(toks, i, cur, consume, level, out) ==
    IF i > Len(toks)
    THEN IF cur # <<>> /\ ~(\A k \in 1..Len(cur) : IsWhitespace(cur[k]))
         THEN Append(out, cur) ELSE out
    ELSE
      LET t == toks[i]
          flush == consume /\ t.ttype \notin {"Whitespace", "Comment.Single"}
          lvl == (IF flush THEN 0 ELSE level) + ChangeSplitLevel(t)
          ends == lvl <= 0 /\ t.ttype = "Punctuation" /\ t.value = <<";">>
      IN  SplitFrom(toks, i + 1,
                    Append(IF flush THEN <<>> ELSE cur, t),
                    (consume /\ ~flush) \/ ends,
                    lvl,
                    IF flush THEN Append(out, cur) ELSE out)

\* sqlparse.parse(text): the statements, each the sequence of its tokens.
Parse(s) == SplitFrom(Lex(s), 1, <<>>, FALSE, 0, <<>>)

\* ---------------------------------------------------------- the gatekeeper

FORBIDDEN_KEYWORDS ==
    {"insert", "update", "delete", "merge", "create", "alter", "drop",
     "truncate", "attach", "detach", "copy", "pragma", "call", "execute"}

Accepted == [kind |-> "Accepted", reason |-> "none"]

ReadOnlyQueryError(reason) == [kind |-> "ReadOnlyQueryError", reason |-> reason]

\* The tokens kept by the list comprehension of validate_read_only.
IsMeaningful(t) ==
    ~IsWhitespace(t) /\ t.ttype \notin {"Comment.Single", "Comment.Multiline"}

MeaningfulTokens(statement) == SelectSeq(statement, IsMeaningful)

\* token.value.lower() in FORBIDDEN_KEYWORDS, for a token that is no string.
IsForbiddenToken(t) ==
    /\ t.ttype \notin {"String.Single", "String.Symbol"}
    /\ Len(t.value) = 1
    /\ Lower(t.value[1]) \in FORBIDDEN_KEYWORDS

\* The keyword scan done on the raw text instead of on the tokens.
HasForbiddenKeywordRawScan(tokens) ==
    \E i \in 1..Len(tokens) :
        \E j \in 1..Len(tokens[i].value) :
            Lower(tokens[i].value[j]) \in FORBIDDEN_KEYWORDS

\* The keyword scan without lower-casing the token value.
HasForbiddenKeywordCaseSensitive(tokens) ==
    \E i \in 1..Len(tokens) :
        /\ tokens[i].ttype \notin {"String.Single", "String.Symbol"}
        /\ Len(tokens[i].value) = 1
        /\ tokens[i].value[1] \in FORBIDDEN_KEYWORDS

HasForbiddenKeyword(tokens) ==
    \E i \in 1..Len(tokens) : IsForbiddenToken(tokens[i])

\* The entry check accepting any first token.
StartsReadOnlyAnyToken(tokens) == TRUE

StartsReadOnly(tokens) ==
    Len(tokens[1].value) = 1 /\ Lower(tokens[1].value[1]) \in {"select", "with"}

\* The statement-count check letting two statements through.
TooManyStatementsOffByOne(parsed) == Len(parsed) > 2

TooManyStatements(parsed) == Len(parsed) > 1

\* The checks on the parse result with the keyword scan made first.
CheckParsedKeywordFirst(parsed) ==
    IF parsed = <<>> THEN ReadOnlyQueryError("ParseError")
    ELSE IF HasForbiddenKeyword(MeaningfulTokens(parsed[1]))
    THEN ReadOnlyQueryError("ForbiddenKeyword")
    ELSE IF Len(parsed) > 1 THEN ReadOnlyQueryError("MultipleStatements")
    ELSE IF MeaningfulTokens(parsed[1]) = <<>> THEN ReadOnlyQueryError("NoTokens")
    ELSE IF ~StartsReadOnly(MeaningfulTokens(parsed[1]))
    THEN ReadOnlyQueryError("NotReadOnlyEntry")
    ELSE Accepted

\* The checks made on the parse result, in the order of the code.
CheckParsed(parsed) ==
    IF parsed = <<>> THEN ReadOnlyQueryError("ParseError")
    ELSE IF TooManyStatements(parsed) THEN ReadOnlyQueryError("MultipleStatements")
    ELSE
      LET tokens == MeaningfulTokens(parsed[1])
      IN  IF tokens = <<>> THEN ReadOnlyQueryError("NoTokens")
          ELSE IF ~StartsReadOnly(tokens) THEN ReadOnlyQueryError("NotReadOnlyEntry")
          ELSE IF HasForbiddenKeyword(tokens) THEN ReadOnlyQueryError("ForbiddenKeyword")
          ELSE Accepted

\* The handler of the try block with no except clause: the lexer's error
\* leaves validate_read_only as it is.
OnLexerErrorUncaught == [kind |-> "SQLParseError", reason |-> "none"]

\* except sqlparse.exceptions.SQLParseError: raise ReadOnlyQueryError(...)
OnLexerError == ReadOnlyQueryError("ParseError")

\* validate_read_only(sql).  lexerRaises: sqlparse.parse raises SQLParseError
\* on this call.
ValidateReadOnly(sql, lexerRaises) ==
    LET normalized == Strip(sql)
    IN  IF normalized = <<>> THEN ReadOnlyQueryError("EmptyStatement")
        ELSE IF lexerRaises THEN OnLexerError
        ELSE CheckParsed(Parse(normalized))

\* ------------------------------------------------------------- the state

VARIABLES
    gate,       \* one call of validate_read_only: its argument and its outcome
    req,        \* per request: the QueryRequest (sql, params, max_rows)
    verdict,    \* per request: what validate_read_only did with its sql
    limit,      \* per request: the coroutine's local variable limit
    pc,         \* per request: where its execute_query coroutine stands
    task,       \* per request: the state of its run_in_executor job
    timer,      \* per request: the deadline timer of asyncio.wait_for
    calls,      \* per request: the conn.execute calls made for it, in order
    response,   \* per request: the HTTP response sent, if any
    loopBusy,   \* the request whose blocking call occupies the event loop, or 0
    connection, \* db._connection: "open" or "none"
    run,        \* one POST /query followed from its body to its response,
                \* with the engine's rows and columns
    boot,       \* db.py at startup and shutdown: initialize_duckdb,
                \* register_fabric_tables, get_connection, close_connection
    tok,        \* FabricClient.get_access_token: the clock, the token file,
                \* the token held in memory
    handle,     \* the result held by the one DuckDB connection object and
                \* what each request read from it
    tool        \* one call of the MCP tool query_duckdb

vars == <<gate, req, verdict, limit, pc, task, timer, calls, response,
          loopBusy, connection, run, boot, tok, handle, tool>>

\* The variables of the specifications beside the query path.
sideVars == <<boot, tok, handle, tool>>

execVars == <<req, verdict, limit, pc, task, timer, calls, response,
              loopBusy, connection>>

Reqs == 1..NumReqs

NoVerdict == [kind |-> "NotCalled", reason |-> "none"]

\* Optional[int]: None, or an int.
NoneVal == [some |-> FALSE, val |-> 0]

Some(n) == [some |-> TRUE, val |-> n]

NoRequest == [sql |-> <<>>, params |-> "None", max_rows |-> NoneVal]

NoResponse == [status |-> 0, body |-> "none"]

GateIdle == [sql |-> <<>>, called |-> FALSE, lexerRaised |-> FALSE, verdict |-> NoVerdict]

\* An exception object: its class and str(exc).
Exc(class, text) == [class |-> class, text |-> text]

NoExc == Exc("none", "none")

\* A request body's max_rows member as JSON: null (or absent), an integer, or
\* a string that is no number.
JsonNull == [json |-> "null", val |-> 0]

JsonInt(n) == [json |-> "int", val |-> n]

JsonString == [json |-> "string", val |-> 0]

NoReply == [status |-> 0, content |-> [detail |-> <<>>]]

NoResult == [columns |-> <<>>, rows |-> <<>>, row_count |-> 0]

RunIdle ==
    [pc |-> "idle",
     body |-> [sql |-> <<>>, params |-> "None", max_rows |-> JsonNull],
     db |-> [cols |-> <<>>, nrows |-> 0],
     verdict |-> NoVerdict, limit |-> NoneVal, calls |-> <<>>,
     callParams |-> <<>>, ran |-> 0,
     columns |-> <<>>, rows |-> <<>>, result |-> NoResult,
     exc |-> NoExc, response |-> NoReply]

\* The process before the lifespan's startup: db._connection is None, no view
\* exists, no request is being served.
BootIdle ==
    [pc |-> "idle", connection |-> "None", failedAt |-> "none",
     tables |-> <<>>, outcomes |-> <<>>, attempts |-> <<>>, views |-> <<>>,
     got |-> [result |-> "none", at |-> "none"],
     request |-> "none", closes |-> 0]

NoToken == [token |-> "None", expires_on |-> 0]

\* A FabricClient just constructed (_access_token = None), no token file, and
\* no call of get_access_token yet.
TokIdle ==
    [clock |-> 0, file |-> [exists |-> FALSE, data |-> NoToken],
     access_token |-> NoToken,
     returned |-> [outcome |-> "none", value |-> NoToken, at |-> 0]]

\* The shared connection before any request: it holds no result, no request
\* has been received and the event loop is free.
HandleIdle ==
    [holds |-> 0, loop |-> 0,
     co |-> [r \in Reqs |-> "idle"],
     job |-> [r \in Reqs |-> "none"],
     status |-> [r \in Reqs |-> 0],
     columns |-> [r \in Reqs |-> 0],
     rows |-> [r \in Reqs |-> 0],
     meta |-> [r \in Reqs |-> 0],
     before |-> [r \in Reqs |-> {}]]

\* The MCP server with no tool call under way and no HTTP request made.
ToolIdle ==
    [pc |-> "idle", arguments |-> [sql |-> <<>>, limit |-> [kind |-> "absent", val |-> 0]],
     posted |-> <<>>, reply |-> "none"]

\* The specifications beside the query path at rest.
SideIdle ==
    /\ boot = BootIdle
    /\ tok = TokIdle
    /\ handle = HandleIdle
    /\ tool = ToolIdle

\* The state after application startup (lifespan has run initialize_duckdb),
\* with no request received yet.
InitExec ==
    /\ req = [r \in Reqs |-> NoRequest]
    /\ verdict = [r \in Reqs |-> NoVerdict]
    /\ limit = [r \in Reqs |-> NoneVal]
    /\ pc = [r \in Reqs |-> "idle"]
    /\ task = [r \in Reqs |-> "none"]
    /\ timer = [r \in Reqs |-> "unset"]
    /\ calls = [r \in Reqs |-> <<>>]
    /\ response = [r \in Reqs |-> NoResponse]
    /\ loopBusy = 0
    /\ connection = "open"

\* ------------------------------------------------- the gatekeeper on its own

\* Every well-formed text of at most MaxLen atoms.
Texts ==
    {s \in UNION {[1..n -> Atoms] : n \in 0..MaxLen} : WellFormed(s)}

InitGate ==
    /\ gate \in {[sql |-> s, called |-> FALSE, lexerRaised |-> FALSE, verdict |-> NoVerdict] :
                 s \in Texts}
    /\ InitExec
    /\ run = RunIdle
    /\ SideIdle

\* validate_read_only(gate.sql) runs to its return or its raise.
Validate(lexerRaises) ==
    /\ ~gate.called
    /\ gate' = [gate EXCEPT !.called = TRUE,
                            !.lexerRaised = lexerRaises /\ Strip(gate.sql) # <<>>,
                            !.verdict = ValidateReadOnly(gate.sql, lexerRaises)]
    /\ UNCHANGED <<execVars, run, sideVars>>

NextGate == \E lexerRaises \in BOOLEAN : Validate(lexerRaises)

SpecGate == InitGate /\ [][NextGate]_vars

\* ------------------------------------------------------ the bounded executor

\* settings.max_result_rows
MAX_RESULT_ROWS == 10000

AggFunctions == {"count", "sum", "avg", "min", "max", "stddev", "variance"}

\* s[i+1..j-1] is whitespace only.
OnlySpaceBetween(s, i, j) == \A k \in (i + 1)..(j - 1) : s[k] = " "

\* The names searched as substrings, with no word boundary in front: the
\* atoms that end in an aggregate's name.
EndsInAggFunction(a) == a \in AggFunctions \cup {"xcount"}

\* has_aggregation with the \b in front of the function names left out.
HasAggregationSubstring(sql) ==
    LET sql_lower == [i \in 1..Len(sql) |-> Lower(sql[i])]
        n == Len(sql_lower)
    IN  \/ \E i \in 1..n : \E j \in (i + 2)..n :
              /\ sql_lower[i] = "group" /\ sql_lower[j] = "by"
              /\ \A k \in (i + 1)..(j - 1) : sql_lower[k] = " "
        \/ \E i \in 1..n : \E j \in (i + 1)..n :
              /\ EndsInAggFunction(sql_lower[i]) /\ sql_lower[j] = "("
              /\ \A k \in (i + 1)..(j - 1) : sql_lower[k] = " "

\* has_aggregation(sql): the two regular expressions, searched in the
\* lower-cased raw text (literals and comments included).
HasAggregation(sql) ==
    LET sql_lower == LowerSeq(sql)
        n == Len(sql_lower)
    IN  \/ \E i \in 1..n : \E j \in (i + 2)..n :
              /\ sql_lower[i] = "group" /\ sql_lower[j] = "by"
              /\ OnlySpaceBetween(sql_lower, i, j)
        \/ \E i \in 1..n : \E j \in (i + 1)..n :
              /\ sql_lower[i] \in AggFunctions /\ sql_lower[j] = "("
              /\ OnlySpaceBetween(sql_lower, i, j)

\* The caller's max_rows held to the server's default.
EffectiveLimitClamped(max_rows) ==
    IF max_rows.some /\ max_rows.val <= MAX_RESULT_ROWS THEN max_rows
    ELSE Some(MAX_RESULT_ROWS)

\* limit = max_rows if max_rows is not None else settings.max_result_rows
EffectiveLimit(max_rows) == IF max_rows.some THEN max_rows ELSE Some(MAX_RESULT_ROWS)

\* The limit handed to db.execute_query: None for an aggregating statement.
LimitFor(sql, max_rows) ==
    IF ~HasAggregation(sql) THEN EffectiveLimit(max_rows) ELSE NoneVal

\* The limit appended to the statement itself, with no derived table.
WrapLimitAppended(sql, n) == sql \o <<" LIMIT ", ToString(n)>>

\* f"SELECT * FROM ({sql}) AS t LIMIT {limit}"
WrapLimit(sql, n) == <<"SELECT * FROM (">> \o sql \o <<") AS t LIMIT ", ToString(n)>>

\* db.execute_query: the text it executes.
DbFinalSql(sql, lim) == IF lim.some THEN WrapLimit(sql, lim.val) ELSE sql

\* QueryService.execute_query: the text of its own conn.execute call.
DescribeSql(sql, lim) == IF ~lim.some THEN sql ELSE WrapLimit(sql, lim.val)

\* if params: conn.execute(sql, params) else: conn.execute(sql)
EngineParams(params) == IF params = "named" THEN params ELSE "omitted"

EngineCall(sql, params, thread) == [sql |-> sql, params |-> params, thread |-> thread]

\* The request goes on past validate_read_only whatever it did.
ValidatedAnyway(v) == TRUE

\* validate_read_only returned: the coroutine goes on to the dispatch.
Validated(v) == v = Accepted

\* routes_query.execute_query: except ReadOnlyQueryError
OnReadOnlyQueryError == [status |-> 400, body |-> "detail"]

\* The deadline answered with the rows fetched so far.
OnQueryTimeoutPartialResult == [status |-> 200, body |-> "QueryResult"]

\* asyncio.TimeoutError -> QueryTimeoutError -> HTTP 504
OnQueryTimeout == [status |-> 504, body |-> "detail"]

\* routes_query.execute_query: except Exception
OnException == [status |-> 500, body |-> "detail"]

\* return QueryResult(...)
OnQueryResult == [status |-> 200, body |-> "QueryResult"]

\* The texts, params and max_rows the requests of the model carry.
SampleSql ==
    { <<"select", " ", "t">>,
      <<"select", " ", "COUNT", "(", "t", ")">>,
      <<"DROP", " ", "t">> }

ParamInputs == {"None", "named"}

MaxRowsInputs == {NoneVal, Some(2)}

Running == {r \in Reqs : task[r] = "running"}

\* Receive with a validate_read_only that checks the first statement the
\* process sees and lets every later one through.
ReceiveValidatingFirstOnly(r, sql, params, max_rows, lexerRaises) ==
    /\ pc[r] = "idle"
    /\ loopBusy = 0
    /\ r > 1 => pc[r - 1] # "idle"
    /\ LET v == IF r > 1 THEN Accepted ELSE ValidateReadOnly(sql, lexerRaises)
       IN  /\ req' = [req EXCEPT ![r] = [sql |-> sql, params |-> params,
                                          max_rows |-> max_rows]]
           /\ verdict' = [verdict EXCEPT ![r] = v]
           /\ IF Validated(v)
              THEN /\ limit' = [limit EXCEPT ![r] = LimitFor(sql, max_rows)]
                   /\ task' = [task EXCEPT ![r] = "queued"]
                   /\ timer' = [timer EXCEPT ![r] = "armed"]
                   /\ pc' = [pc EXCEPT ![r] = "awaiting"]
                   /\ UNCHANGED response
              ELSE /\ response' = [response EXCEPT ![r] = OnReadOnlyQueryError]
                   /\ pc' = [pc EXCEPT ![r] = "done"]
                   /\ UNCHANGED <<limit, task, timer>>
    /\ UNCHANGED <<gate, run, sideVars, calls, loopBusy, connection>>

\* POST /query arrives and the event loop runs the coroutine to its first
\* await: validation, the limit, the dispatch to the executor under wait_for.
Receive(r, sql, params, max_rows, lexerRaises) ==
    /\ pc[r] = "idle"
    /\ loopBusy = 0
    /\ r > 1 => pc[r - 1] # "idle"
    /\ LET v == ValidateReadOnly(sql, lexerRaises)
       IN  /\ req' = [req EXCEPT ![r] = [sql |-> sql, params |-> params,
                                          max_rows |-> max_rows]]
           /\ verdict' = [verdict EXCEPT ![r] = v]
           /\ IF Validated(v)
              THEN /\ limit' = [limit EXCEPT ![r] = LimitFor(sql, max_rows)]
                   /\ task' = [task EXCEPT ![r] = "queued"]
                   /\ timer' = [timer EXCEPT ![r] = "armed"]
                   /\ pc' = [pc EXCEPT ![r] = "awaiting"]
                   /\ UNCHANGED response
              ELSE /\ response' = [response EXCEPT ![r] = OnReadOnlyQueryError]
                   /\ pc' = [pc EXCEPT ![r] = "done"]
                   /\ UNCHANGED <<limit, task, timer>>
    /\ UNCHANGED <<gate, run, sideVars, calls, loopBusy, connection>>

\* A free worker thread takes the oldest queued job and enters
\* db.execute_query: get_connection, then conn.execute.
WorkerStart(r) ==
    /\ task[r] = "queued"
    /\ \A q \in Reqs : q < r => task[q] # "queued"
    /\ Cardinality(Running) < MaxWorkers
    /\ IF connection = "none"
       THEN /\ task' = [task EXCEPT ![r] = "raised"]
            /\ UNCHANGED calls
       ELSE /\ task' = [task EXCEPT ![r] = "running"]
            /\ calls' = [calls EXCEPT ![r] = Append(@,
                  EngineCall(DbFinalSql(req[r].sql, limit[r]),
                             EngineParams(req[r].params), "worker"))]
    /\ UNCHANGED <<gate, run, sideVars, req, verdict, limit, pc, timer, response, loopBusy, connection>>

\* The worker's conn.execute and fetchall return: the job's future is done.
WorkerReturn(r) ==
    /\ task[r] = "running"
    /\ task' = [task EXCEPT ![r] = "returned"]
    /\ UNCHANGED <<gate, run, sideVars, req, verdict, limit, pc, timer, calls, response, loopBusy, connection>>

\* The worker's engine call raises.
WorkerRaise(r) ==
    /\ task[r] = "running"
    /\ task' = [task EXCEPT ![r] = "raised"]
    /\ UNCHANGED <<gate, run, sideVars, req, verdict, limit, pc, timer, calls, response, loopBusy, connection>>

\* A deadline that answers 504 and leaves the coroutine waiting for the job.
TimeoutThenContinue(r) ==
    /\ pc[r] = "awaiting"
    /\ timer[r] = "armed"
    /\ task[r] \in {"queued", "running"}
    /\ loopBusy = 0
    /\ timer' = [timer EXCEPT ![r] = "fired"]
    /\ response' = [response EXCEPT ![r] = OnQueryTimeout]
    /\ UNCHANGED <<gate, run, sideVars, req, verdict, limit, pc, task, calls, loopBusy, connection>>

\* The deadline of wait_for fires before the job is done: the future is
\* cancelled (a job still queued never runs, a running one goes on) and the
\* coroutine raises QueryTimeoutError.
\* Timeout, but the deadline also stops the worker's engine call.
TimeoutStoppingWorker(r) ==
    /\ pc[r] = "awaiting"
    /\ timer[r] = "armed"
    /\ task[r] \in {"queued", "running"}
    /\ loopBusy = 0
    /\ timer' = [timer EXCEPT ![r] = "fired"]
    /\ task' = [task EXCEPT ![r] = "cancelled"]
    /\ response' = [response EXCEPT ![r] = OnQueryTimeout]
    /\ pc' = [pc EXCEPT ![r] = "done"]
    /\ UNCHANGED <<gate, run, sideVars, req, verdict, limit, calls, loopBusy, connection>>

Timeout(r) ==
    /\ pc[r] = "awaiting"
    /\ timer[r] = "armed"
    /\ task[r] \in {"queued", "running"}
    /\ loopBusy = 0
    /\ timer' = [timer EXCEPT ![r] = "fired"]
    /\ task' = [task EXCEPT ![r] = IF @ = "queued" THEN "cancelled" ELSE @]
    /\ response' = [response EXCEPT ![r] = OnQueryTimeout]
    /\ pc' = [pc EXCEPT ![r] = "done"]
    /\ UNCHANGED <<gate, run, sideVars, req, verdict, limit, calls, loopBusy, connection>>

\* wait_for returns the job's result: the coroutine goes on, on the event
\* loop, to get_connection and its own conn.execute of the statement.
Resume(r) ==
    /\ pc[r] = "awaiting"
    /\ task[r] = "returned"
    /\ loopBusy = 0
    /\ timer' = [timer EXCEPT ![r] = "cancelled"]
    /\ IF connection = "none"
       THEN /\ response' = [response EXCEPT ![r] = OnException]
            /\ pc' = [pc EXCEPT ![r] = "done"]
            /\ UNCHANGED <<calls, loopBusy>>
       ELSE /\ calls' = [calls EXCEPT ![r] = Append(@,
                  EngineCall(DescribeSql(req[r].sql, limit[r]),
                             EngineParams(req[r].params), "loop"))]
            /\ pc' = [pc EXCEPT ![r] = "describing"]
            /\ loopBusy' = r
            /\ UNCHANGED response
    /\ UNCHANGED <<gate, run, sideVars, req, verdict, limit, task, connection>>

\* wait_for re-raises the job's exception: the route answers 500.
ResumeRaised(r) ==
    /\ pc[r] = "awaiting"
    /\ task[r] = "raised"
    /\ loopBusy = 0
    /\ timer' = [timer EXCEPT ![r] = "cancelled"]
    /\ response' = [response EXCEPT ![r] = OnException]
    /\ pc' = [pc EXCEPT ![r] = "done"]
    /\ UNCHANGED <<gate, run, sideVars, req, verdict, limit, task, calls, loopBusy, connection>>

\* The coroutine's conn.execute returns: the QueryResult is built and sent.
DescribeReturn(r) ==
    /\ pc[r] = "describing"
    /\ loopBusy = r
    /\ response' = [response EXCEPT ![r] = OnQueryResult]
    /\ pc' = [pc EXCEPT ![r] = "done"]
    /\ loopBusy' = 0
    /\ UNCHANGED <<gate, run, sideVars, req, verdict, limit, task, timer, calls, connection>>

\* The coroutine's conn.execute raises: the route answers 500.
DescribeRaise(r) ==
    /\ pc[r] = "describing"
    /\ loopBusy = r
    /\ response' = [response EXCEPT ![r] = OnException]
    /\ pc' = [pc EXCEPT ![r] = "done"]
    /\ loopBusy' = 0
    /\ UNCHANGED <<gate, run, sideVars, req, verdict, limit, task, timer, calls, connection>>

Init == gate = GateIdle /\ InitExec /\ run = RunIdle /\ SideIdle

Next ==
    \/ \E r \in Reqs, sql \in SampleSql, params \in ParamInputs,
          max_rows \in MaxRowsInputs, lexerRaises \in BOOLEAN :
          Receive(r, sql, params, max_rows, lexerRaises)
    \/ \E r \in Reqs : WorkerStart(r)
    \/ \E r \in Reqs : WorkerReturn(r)
    \/ \E r \in Reqs : WorkerRaise(r)
    \/ \E r \in Reqs : Timeout(r)
    \/ \E r \in Reqs : Resume(r)
    \/ \E r \in Reqs : ResumeRaised(r)
    \/ \E r \in Reqs : DescribeReturn(r)
    \/ \E r \in Reqs : DescribeRaise(r)

Spec == Init /\ [][Next]_vars

\* ----------------------------------- one request from its body to its response

\* The messages an internal exception can carry.
ExcTexts == {"e1", "e2"}

\* What db.execute_query and conn.execute raise: get_connection's
\* RuntimeError, the engine's duckdb.Error.
EngineExcClasses == {"RuntimeError", "duckdb.Error"}

\* QueryRequest(**body): max_rows is Optional[int] with no bound, so every
\* integer and null validate; a string that is no number does not.
QueryRequestValid(body) == body.max_rows.json # "string"

\* The max_rows attribute of the validated QueryRequest.
RequestMaxRows(body) ==
    IF body.max_rows.json = "int" THEN Some(body.max_rows.val) ELSE NoneVal

\* The engine's result for a statement is rows 1..nrows of db.cols columns;
\* the value in row i, column j is <<i, j>>.
EngineRows(db) == [i \in 1..db.nrows |-> [j \in 1..Len(db.cols) |-> <<i, j>>]]

\* The text is SELECT * FROM (...) AS t LIMIT <digits>.
IsWrapped(text) ==
    /\ Len(text) >= 3
    /\ text[1] = "SELECT * FROM ("
    /\ text[Len(text) - 1] = ") AS t LIMIT "

\* The numbers whose digits the model's statements can end with.
LimitLiterals == {0, 1, 2, MAX_RESULT_ROWS, MAX_RESULT_ROWS + 1}

\* The engine reads the number after LIMIT.
EngineLimit(text) == CHOOSE n \in LimitLiterals : ToString(n) = text[Len(text)]

\* The first n elements of s.
Take(s, n) == SubSeq(s, 1, IF n < Len(s) THEN n ELSE Len(s))

\* The star over a derived table: a column name that repeats an earlier one
\* gets the suffix :k.
DerivedColumns(cols) ==
    [j \in DOMAIN cols |->
        LET k == Cardinality({i \in 1..(j - 1) : cols[i] = cols[j]})
        IN  IF k = 0 THEN cols[j] ELSE cols[j] \o ":" \o ToString(k)]

\* conn.execute(text): result.description (the names) and result.fetchall().
EngineExecute(text, db) ==
    IF IsWrapped(text)
    THEN [description |-> DerivedColumns(db.cols),
          rows |-> Take(EngineRows(db), EngineLimit(text))]
    ELSE [description |-> db.cols, rows |-> EngineRows(db)]

\* QueryColumn(name=desc[0], type=str(desc[1]))
QueryColumn(name) == [name |-> name, type |-> "type"]

\* A dict is its items in insertion order.  d[key] = value: a key already
\* present keeps its place and takes the new value.
DictSet(d, key, value) ==
    IF \E i \in DOMAIN d : d[i].key = key
    THEN [i \in DOMAIN d |-> IF d[i].key = key THEN [key |-> key, value |-> value]
                                               ELSE d[i]]
    ELSE Append(d, [key |-> key, value |-> value])

\* {columns[i]: value for i, value in enumerate(row)}, the first n values.
RECURSIVE RowAsDict(_, _, _)
RowAsDict(columns, row, n) ==
    IF n = 0 THEN <<>>
    ELSE DictSet(RowAsDict(columns, row, n - 1), columns[n], row[n])

\* rows_as_dicts built from the rows last to first.
RowsAsDictsReversed(columns, rows) ==
    [r \in DOMAIN rows |->
        LET row == rows[Len(rows) + 1 - r]
        IN  [i \in DOMAIN row |-> [key |-> columns[i], value |-> row[i]]]]

\* rows_as_dicts
RowsAsDicts(columns, rows) ==
    [r \in DOMAIN rows |-> RowAsDict(columns, rows[r], Len(rows[r]))]

\* QueryResult(columns=column_metadata, rows=rows_as_dicts, row_count=len(rows))
QueryResult(description, columns, rows) ==
    [columns |-> [j \in DOMAIN description |-> QueryColumn(description[j])],
     rows |-> RowsAsDicts(columns, rows),
     row_count |-> Len(rows)]

\* raise HTTPException(status_code, detail): FastAPI answers {"detail": detail}.
HTTPException(status_code, detail) ==
    [status |-> status_code, content |-> [detail |-> detail]]

\* JSONResponse(status_code=..., content={"detail": ..., "error_type": ...})
JSONResponse(status_code, detail, error_type) ==
    [status |-> status_code,
     content |-> [detail |-> detail, error_type |-> error_type]]

\* The route with except Exception as its only clause.
RouteExceptCatchAll(exc) ==
    [status |-> 500,
     content |-> [detail |-> <<"Internal server error during query execution">>]]

\* routes_query.execute_query: its three except clauses, in order.
RouteExcept(exc) ==
    IF exc.class = "ReadOnlyQueryError" THEN HTTPException(400, <<exc.text>>)
    ELSE IF exc.class = "QueryTimeoutError" THEN HTTPException(504, <<exc.text>>)
    ELSE HTTPException(500, <<"Internal server error during query execution">>)

\* main.py: the application's exception handlers, for an exception that
\* leaves the route.
AppExceptionHandler(exc) ==
    IF exc.class = "ReadOnlyQueryError"
    THEN JSONResponse(400, <<exc.text>>, "ReadOnlyViolation")
    ELSE IF exc.class = "QueryTimeoutError"
    THEN JSONResponse(504, <<exc.text>>, "QueryTimeout")
    ELSE JSONResponse(500, <<"An unexpected error occurred. ", exc.text>>,
                      "InternalServerError")

\* FastAPI's answer to a body that is no QueryRequest.
OnRequestValidationError == HTTPException(422, <<"validation error">>)

\* The statements, bodies and engine contents of the single request.
RunSampleSql ==
    SampleSql \cup
    { <<"select", " ", "t", " ", "group", " ", "by", " ", "t">>,
      <<"select", " ", "xcount", "(", "t", ")">> }

\* params of the body: absent, {} or a non-empty object.
RunParamInputs == ParamInputs \cup {"empty"}

RunMaxRowsInputs ==
    {JsonNull, JsonInt(0), JsonInt(1), JsonInt(2), JsonInt(MAX_RESULT_ROWS + 1),
     JsonString}

ColumnShapes == {<<"a">>, <<"a", "b">>, <<"n", "n">>}

RunFail(exc, reply) ==
    run' = [run EXCEPT !.pc = "done", !.exc = exc, !.response = reply]

\* FastAPI builds the QueryRequest from the body and calls the route, or
\* answers 422 itself.
RunParse ==
    /\ run.pc = "body"
    /\ IF QueryRequestValid(run.body)
       THEN run' = [run EXCEPT !.pc = "route"]
       ELSE run' = [run EXCEPT !.pc = "done", !.response = OnRequestValidationError]
    /\ UNCHANGED <<gate, execVars, sideVars>>

\* The route calls QueryService.execute_query, which runs to its await:
\* validate_read_only, the limit, the job handed to the executor.
RunValidate(lexerRaises) ==
    /\ run.pc = "route"
    /\ LET v == ValidateReadOnly(run.body.sql, lexerRaises)
       IN  IF Validated(v)
           THEN run' = [run EXCEPT !.pc = "awaiting", !.verdict = v,
                          !.limit = LimitFor(run.body.sql, RequestMaxRows(run.body))]
           ELSE run' = [run EXCEPT !.pc = "done", !.verdict = v,
                          !.exc = Exc("ReadOnlyQueryError", v.reason),
                          !.response = RouteExcept(Exc("ReadOnlyQueryError", v.reason))]
    /\ UNCHANGED <<gate, execVars, sideVars>>

\* db.execute_query runs on the worker and wait_for returns its pair.
RunDbExecute ==
    /\ run.pc = "awaiting"
    /\ LET final_sql == DbFinalSql(run.body.sql, run.limit)
           result == EngineExecute(final_sql, run.db)
       IN  run' = [run EXCEPT !.pc = "fetched",
                              !.calls = Append(@, final_sql),
                              !.callParams = Append(@, EngineParams(run.body.params)),
                              !.ran = @ + 1,
                              !.columns = result.description,
                              !.rows = result.rows]
    /\ UNCHANGED <<gate, execVars, sideVars>>

\* db.execute_query raises and wait_for re-raises in the coroutine.
RunDbRaise(exc) ==
    /\ run.pc = "awaiting"
    /\ RunFail(exc, RouteExcept(exc))
    /\ UNCHANGED <<gate, execVars, sideVars>>

\* The deadline fires first: except asyncio.TimeoutError raises
\* QueryTimeoutError.
RunTimeout ==
    /\ run.pc = "awaiting"
    /\ RunFail(Exc("QueryTimeoutError", "timeout"),
               RouteExcept(Exc("QueryTimeoutError", "timeout")))
    /\ UNCHANGED <<gate, execVars, sideVars>>

\* The coroutine's own conn.execute, result.description, and the QueryResult
\* the route returns.
RunDescribe ==
    /\ run.pc = "fetched"
    /\ LET text == DescribeSql(run.body.sql, run.limit)
           result == EngineExecute(text, run.db)
       IN  run' = [run EXCEPT !.pc = "returned",
                              !.calls = Append(@, text),
                              !.callParams = Append(@, EngineParams(run.body.params)),
                              !.ran = @ + 1,
                              !.result = QueryResult(result.description,
                                                     run.columns, run.rows)]
    /\ UNCHANGED <<gate, execVars, sideVars>>

\* The coroutine's own get_connection or conn.execute raises.
RunDescribeRaise(exc) ==
    /\ run.pc = "fetched"
    /\ RunFail(exc, RouteExcept(exc))
    /\ UNCHANGED <<gate, execVars, sideVars>>

\* FastAPI serialises the returned QueryResult and sends it.
RunSend ==
    /\ run.pc = "returned"
    /\ run' = [run EXCEPT !.pc = "done",
                          !.response = [status |-> 200, content |-> run.result]]
    /\ UNCHANGED <<gate, execVars, sideVars>>

\* Serialising the returned QueryResult raises, outside the route's try.
RunSendRaise(exc) ==
    /\ run.pc = "returned"
    /\ RunFail(exc, AppExceptionHandler(exc))
    /\ UNCHANGED <<gate, execVars, sideVars>>

InitRun ==
    /\ gate = GateIdle
    /\ InitExec
    /\ SideIdle
    /\ run \in {[RunIdle EXCEPT !.pc = "body",
                                !.body = [sql |-> sql, params |-> params,
                                          max_rows |-> max_rows],
                                !.db = [cols |-> cols, nrows |-> nrows]] :
                  sql \in RunSampleSql, params \in RunParamInputs,
                  max_rows \in RunMaxRowsInputs, cols \in ColumnShapes,
                  nrows \in 0..MaxTableRows}

NextRun ==
    \/ RunParse
    \/ \E lexerRaises \in BOOLEAN : RunValidate(lexerRaises)
    \/ RunDbExecute
    \/ \E class \in EngineExcClasses, text \in ExcTexts : RunDbRaise(Exc(class, text))
    \/ RunTimeout
    \/ RunDescribe
    \/ \E class \in EngineExcClasses, text \in ExcTexts :
          RunDescribeRaise(Exc(class, text))
    \/ RunSend
    \/ \E text \in ExcTexts : RunSendRaise(Exc("ValueError", text))

SpecRun == InitRun /\ [][NextRun]_vars

\* --------------------------------------------- what the gatekeeper claims use

\* The tokens of the whole text, whitespace and comments discarded.
BareTokens(s) ==
    LET toks == Lex(s)
    IN  [k \in {i \in 1..Len(toks) :
                    toks[i].ttype \notin {"Whitespace", "Comment.Multiline"}}
            |-> toks[k]]

BareIndexes(s) == DOMAIN BareTokens(s)

\* A denylisted word stands in the text as a whole token outside string
\* literals, quoted identifiers and comments.
HasBareKeyword(s) ==
    \E i \in BareIndexes(s) :
        /\ BareTokens(s)[i].ttype = "Name"
        /\ Lower(BareTokens(s)[i].value[1]) \in FORBIDDEN_KEYWORDS

\* The first token of the text after whitespace and comments is SELECT or WITH.
FirstTokenReadOnly(s) ==
    /\ BareIndexes(s) # {}
    /\ LET first == CHOOSE i \in BareIndexes(s) : \A k \in BareIndexes(s) : i <= k
       IN  /\ BareTokens(s)[first].ttype = "Name"
           /\ Lower(BareTokens(s)[first].value[1]) \in {"select", "with"}

IsSemicolon(t) == t.ttype = "Punctuation" /\ t.value = <<";">>

\* Two statements with a semicolon between them: some token that is neither
\* whitespace, comment nor semicolon on each side of a top-level semicolon.
HasTwoStatements(s) ==
    \E i \in BareIndexes(s) :
        /\ IsSemicolon(BareTokens(s)[i])
        /\ \E j \in BareIndexes(s) : j < i /\ ~IsSemicolon(BareTokens(s)[j])
        /\ \E k \in BareIndexes(s) : k > i /\ ~IsSemicolon(BareTokens(s)[k])

\* The text is one statement for the statement splitter.
OneStatement(s) == Len(Parse(Strip(s))) = 1

\* validate_read_only was called on text the lexer tokenized.
Tokenized == gate.called /\ ~gate.lexerRaised

NamedReasons ==
    {"EmptyStatement", "MultipleStatements", "NoTokens", "NotReadOnlyEntry",
     "ForbiddenKeyword", "ParseError"}

\* C2 as stated: every text with a denylisted word as a bare token outside
\* literals is rejected with reason ForbiddenKeyword.
C2_AsStated ==
    (Tokenized /\ HasBareKeyword(gate.sql))
        => gate.verdict = ReadOnlyQueryError("ForbiddenKeyword")

\* C2 amended: every text with a denylisted word as a bare lexer token
\* outside literals and comments is rejected; the reason is ForbiddenKeyword
\* when the text is one statement whose first token is SELECT or WITH,
\* MultipleStatements when it is several statements, and NotReadOnlyEntry
\* otherwise (so for a text that begins with DROP).
C2_BareKeywordRejected ==
    (Tokenized /\ HasBareKeyword(gate.sql))
        => gate.verdict = ReadOnlyQueryError(
               IF ~OneStatement(gate.sql) THEN "MultipleStatements"
               ELSE IF ~FirstTokenReadOnly(gate.sql) THEN "NotReadOnlyEntry"
               ELSE "ForbiddenKeyword")

C2_Witness ==
    /\ Tokenized /\ HasBareKeyword(gate.sql)
    /\ FirstTokenReadOnly(gate.sql)
    /\ gate.verdict.reason = "ForbiddenKeyword"

\* C3: a text whose first token after whitespace and comments is not SELECT
\* or WITH (case-insensitively) is rejected, never accepted.
C3_NonSelectRejected ==
    (gate.called /\ ~FirstTokenReadOnly(gate.sql))
        => gate.verdict.kind = "ReadOnlyQueryError"

C3_Witness ==
    /\ gate.called /\ ~FirstTokenReadOnly(gate.sql)
    /\ ~HasBareKeyword(gate.sql)
    /\ gate.verdict.reason = "NotReadOnlyEntry"

C5_TwoStatementsRejected ==
    (Tokenized /\ HasTwoStatements(gate.sql))
        => gate.verdict = ReadOnlyQueryError("MultipleStatements")

C5_Witness ==
    /\ Tokenized /\ HasTwoStatements(gate.sql)
    /\ ~FirstTokenReadOnly(gate.sql) /\ HasBareKeyword(gate.sql)
    /\ gate.verdict.reason = "MultipleStatements"

\* C6: validate_read_only returns or raises ReadOnlyQueryError with a named
\* reason; a failure of the lexer becomes the parse-error rejection and no
\* other exception leaves the call.
C6_OnlyClassifiedErrors ==
    gate.called =>
        /\ gate.verdict.kind \in {"Accepted", "ReadOnlyQueryError"}
        /\ gate.verdict.kind = "ReadOnlyQueryError" => gate.verdict.reason \in NamedReasons
        /\ gate.lexerRaised => gate.verdict = ReadOnlyQueryError("ParseError")

C6_Witness ==
    gate.called /\ gate.lexerRaised /\ gate.verdict.reason = "ParseError"

\* ----------------------------------------------- what the executor claims use

\* The text handed to the engine is the request's text, verbatim or embedded
\* unchanged in the limit wrapper.
CarriesText(callSql, sql) ==
    \/ callSql = sql
    \/ /\ Len(callSql) = Len(sql) + 3
       /\ callSql[1] = "SELECT * FROM ("
       /\ SubSeq(callSql, 2, Len(sql) + 1) = sql
       /\ callSql[Len(sql) + 2] = ") AS t LIMIT "

\* C1: no engine call is made for a request unless validate_read_only
\* returned without raising for its text; a rejected request causes no
\* engine call, and the engine is handed the validated text, verbatim or
\* inside the limit wrapper.
C1_ValidatedBeforeEngine ==
    \A r \in Reqs :
        /\ verdict[r].kind = "ReadOnlyQueryError" => calls[r] = <<>>
        /\ calls[r] # <<>> =>
              /\ verdict[r] = Accepted
              /\ ValidateReadOnly(req[r].sql, FALSE) = Accepted
              /\ \A i \in 1..Len(calls[r]) : CarriesText(calls[r][i].sql, req[r].sql)

C1_Witness ==
    \E r \in Reqs, q \in Reqs :
        /\ Len(calls[r]) = 2 /\ calls[r][1].sql # req[r].sql
        /\ response[q].status = 400 /\ calls[q] = <<>>

\* C7: when the deadline fires before the engine call returns, the request
\* is answered with the timeout error and no QueryResult is built or sent
\* for it, also after the worker's engine call has completed later.
C7_TimeoutNoResult ==
    \A r \in Reqs :
        timer[r] = "fired" =>
            /\ response[r].status = 504
            /\ response[r].body # "QueryResult"
            /\ pc[r] = "done"

C7_Witness ==
    \E r \in Reqs :
        timer[r] = "fired" /\ task[r] = "returned" /\ response[r].status = 504

\* C8 as stated: every engine call made for a request is raced against the
\* deadline, so a request that is accepted and not yet answered always has
\* its deadline armed.
C8_AsStated ==
    \A r \in Reqs : pc[r] \in {"awaiting", "describing"} => timer[r] = "armed"

\* C9 as stated: every engine call of a request runs on the worker pool and
\* none on the event loop, which stays free to accept and validate requests.
C9_AsStated ==
    /\ \A r \in Reqs : \A i \in 1..Len(calls[r]) : calls[r][i].thread = "worker"
    /\ loopBusy = 0

\* C10 as stated: the engine executes the statement of a request at most
\* once over the lifetime of the request.
C10_AsStated ==
    \A r \in Reqs : Len(calls[r]) <= 1

\* ------------------------------------- what the single request's claims use

\* The request went past validation to the dispatch.
Dispatched == run.calls # <<>>

\* The limit the request asks for, read off its body.
AskedLimit == IF run.body.max_rows.json = "int" THEN run.body.max_rows.val
              ELSE MAX_RESULT_ROWS

Succeeded == run.response.status = 200

HasGroupByClause(sql) ==
    \E i \in 1..(Len(sql) - 2) :
        sql[i] \in {"group", "GROUP"} /\ sql[i + 1] = " " /\ sql[i + 2] \in {"by", "BY"}

\* The text holds a call f( of one of the seven functions, f a whole word.
CallsAggregate(sql) ==
    \E i \in 1..(Len(sql) - 1) :
        /\ sql[i] \in {"count", "COUNT", "sum", "avg", "min", "max", "stddev", "variance"}
        /\ sql[i + 1] = "("

\* C12: a statement whose text holds GROUP BY or a call of count, sum, avg,
\* min, max, stddev or variance (as a whole word) is dispatched unmodified
\* with no row cap, whatever max_rows and the default are; every other
\* statement is dispatched inside the LIMIT wrapper.
C12_AggregationBypass ==
    \A k \in DOMAIN run.calls :
        IF HasGroupByClause(run.body.sql) \/ CallsAggregate(run.body.sql)
        THEN run.calls[k] = run.body.sql /\ ~run.limit.some
        ELSE /\ Len(run.calls[k]) = Len(run.body.sql) + 3
             /\ run.calls[k][1] = "SELECT * FROM ("
             /\ run.calls[k][Len(run.calls[k]) - 1] = ") AS t LIMIT "

\* A GROUP BY statement sent with max_rows 1 comes back with all three rows.
C12_Witness ==
    /\ Succeeded
    /\ HasGroupByClause(run.body.sql)
    /\ run.body.max_rows = JsonInt(1)
    /\ run.calls = <<run.body.sql, run.body.sql>>
    /\ run.response.content.row_count = 3

\* The digits at the end of a dispatched LIMIT wrapper.
LimitDigits(text) == text[Len(text)]

\* C13: the effective row limit is the caller's max_rows whenever the request
\* carries one, larger than the server default or not, and
\* settings.max_result_rows only when it carries none.
C13_EffectiveLimit ==
    (run.verdict = Accepted /\ ~HasAggregation(run.body.sql)) =>
        /\ run.limit.some
        /\ run.body.max_rows.json = "int" => run.limit.val = run.body.max_rows.val
        /\ run.body.max_rows.json = "null" => run.limit.val = MAX_RESULT_ROWS
        /\ \A k \in DOMAIN run.calls :
              LimitDigits(run.calls[k]) = ToString(run.limit.val)

\* A request asking for more rows than the default is dispatched with its
\* own number.
C13_Witness ==
    /\ Dispatched
    /\ run.body.max_rows = JsonInt(MAX_RESULT_ROWS + 1)
    /\ run.limit = Some(MAX_RESULT_ROWS + 1)
    /\ LimitDigits(run.calls[1]) = ToString(MAX_RESULT_ROWS + 1)

\* C14 (as stated): every LIMIT wrapper that reaches the engine carries a
\* number of at least 1, and a request whose max_rows is 0 or less is
\* answered as a malformed body, before the route and validate_read_only run.
C14_AsStated ==
    /\ \A k \in DOMAIN run.calls :
          IsWrapped(run.calls[k]) => EngineLimit(run.calls[k]) >= 1
    /\ (run.body.max_rows.json = "int" /\ run.body.max_rows.val <= 0) =>
          /\ run.pc \in {"body", "done"}
          /\ run.verdict = NoVerdict
          /\ run.pc = "done" => run.response.status = 422

\* Keys of a dict, in order.
Keys(d) == [i \in DOMAIN d |-> d[i].key]

\* Names of the columns member of a QueryResult, in order.
ColumnNames(result) == [j \in DOMAIN result.columns |-> result.columns[j].name]

\* C15 (as stated): in a successful outcome every row has as many keys as
\* columns has entries, and the keys are the column names in their order,
\* for results with repeated column names too.
C15_AsStated ==
    Succeeded =>
        \A r \in DOMAIN run.response.content.rows :
            Keys(run.response.content.rows[r]) = ColumnNames(run.response.content)

\* The request failed: an exception was raised while it was served.
Failed == run.exc # NoExc

\* C16: a failed /query request gets its status code from its error class:
\* ReadOnlyQueryError 400, QueryTimeoutError 504, every other exception 500;
\* a validation failure is never a 500 and an engine failure never a 400 or
\* a 504.
C16_StatusByErrorClass ==
    /\ Failed =>
          /\ run.exc.class = "ReadOnlyQueryError" <=> run.response.status = 400
          /\ run.exc.class = "QueryTimeoutError" <=> run.response.status = 504
          /\ run.exc.class \notin {"ReadOnlyQueryError", "QueryTimeoutError"}
                <=> run.response.status = 500
    /\ run.verdict.kind = "ReadOnlyQueryError" => run.response.status = 400
    /\ run.response.status \in {400, 504, 500} => Failed

\* An engine error raised by the coroutine's own conn.execute, after the
\* dispatched call returned, is answered 500.
C16_Witness ==
    /\ run.exc.class = "duckdb.Error"
    /\ Len(run.calls) = 1
    /\ run.pc = "done"
    /\ run.response.status = 500

\* The error_type the failure shape names for a status code.
ErrorTypeOf(status) ==
    CASE status = 400 -> "ReadOnlyViolation"
      [] status = 504 -> "QueryTimeout"
      [] OTHER -> "InternalServerError"

\* C17 (as stated): every failure response of /query is {detail, error_type},
\* with error_type ReadOnlyViolation for a 400, QueryTimeout for a 504 and
\* InternalServerError for a 500.
C17_AsStated ==
    run.response.status \in {400, 504, 500} =>
        /\ DOMAIN run.response.content = {"detail", "error_type"}
        /\ run.response.content.error_type = ErrorTypeOf(run.response.status)

\* C18 (as stated): the detail of an InternalServerError response holds
\* nothing of the exception's text, on every path that answers 500.
C18_AsStated ==
    run.response.status = 500 =>
        \A i \in DOMAIN run.response.content.detail :
            run.response.content.detail[i] # run.exc.text

\* sqlparse raised on request r's text: the lexer's behaviour on a text, the
\* same at every call with that text.
LexerRaisedFor(r) == verdict[r].reason = "ParseError"

EngineReturned == EngineExecute(run.calls[1], run.db).rows

\* The value a row dict holds under its last key.
LastValue(d) == d[Len(d)].value

\* C20: the rows of a successful outcome are the engine's rows for the
\* dispatched statement, in the engine's order, none dropped, duplicated or
\* moved, and row_count is their number.
C20_RowOrderKept ==
    Succeeded =>
        LET out == run.response.content
        IN  /\ out.row_count = Len(out.rows)
            /\ Len(out.rows) = Len(EngineReturned)
            /\ \A i \in DOMAIN out.rows :
                  LastValue(out.rows[i]) = EngineReturned[i][Len(EngineReturned[i])]

\* Three rows came back and went out.
C20_Witness ==
    /\ Succeeded
    /\ Len(EngineReturned) = 3
    /\ run.response.content.row_count = 3
    /\ LastValue(run.response.content.rows[3])[1] = 3

\* ------------------------------------------- what the executor's claims use

\* Where request r stands in the per-request state machine.  The code from
\* the route's entry to the first await runs without a break, so Received,
\* Validating, Validated and Limiting are passed inside one step; Dispatching
\* is the wait for the job, Normalizing the work after it returned.
Phase(r) ==
    CASE response[r].status = 400 -> "Rejected"
      [] response[r].status = 504 -> "TimedOut"
      [] response[r].status = 200 -> "Completed"
      [] response[r].status = 500 -> "Failed"
      [] response[r].status = 0 /\ pc[r] = "idle" -> "NotReceived"
      [] response[r].status = 0 /\ pc[r] = "awaiting" -> "Dispatching"
      [] response[r].status = 0 /\ pc[r] = "describing" -> "Normalizing"
      [] OTHER -> "Unknown"

\* C21 (as stated): a request that has ended is Rejected, TimedOut or
\* Completed.
C21_AsStated ==
    \A r \in Reqs : pc[r] = "done" => Phase(r) \in {"Rejected", "TimedOut", "Completed"}

\* The moves of the state machine, with the failure exits.
PhaseSteps ==
    { <<"NotReceived", "Rejected">>, <<"NotReceived", "Dispatching">>,
      <<"Dispatching", "TimedOut">>, <<"Dispatching", "Normalizing">>,
      <<"Dispatching", "Failed">>,
      <<"Normalizing", "Completed">>, <<"Normalizing", "Failed">> }

\* C21 amended: every request moves along Received, Validating, then Rejected
\* or Validated, Limiting, Dispatching, then TimedOut or Dispatched,
\* Normalizing, Completed, or leaves Dispatching or Normalizing for Failed
\* (an engine error, answered 500); no state is skipped or revisited and
\* Rejected, TimedOut, Completed and Failed are terminal.
C21_StateMachine ==
    [][\A r \in Reqs :
          \/ Phase(r)' = Phase(r)
          \/ <<Phase(r), Phase(r)'>> \in PhaseSteps]_vars

\* One request completed and another timed out.
C21_Witness ==
    \E r, q \in Reqs : Phase(r) = "Completed" /\ Phase(q) = "TimedOut"

\* ---------------------------------------------- the order of the gate's checks

\* The text is whitespace from end to end (the empty text included).
WhitespaceOnly(s) == \A i \in 1..Len(s) : s[i] = " "

\* The text is one block comment.
CommentOnly(s) ==
    /\ Len(s) >= 2
    /\ s[1] = "/*"
    /\ s[Len(s)] = "*/"
    /\ \A i \in 2..(Len(s) - 1) : s[i] # "*/"

\* The first check of the claim's list that the text fails.
FirstFailedCheck(s) ==
    IF WhitespaceOnly(s) THEN "EmptyStatement"
    ELSE IF ~OneStatement(s) THEN "MultipleStatements"
    ELSE IF BareIndexes(s) = {} THEN "NoTokens"
    ELSE IF ~FirstTokenReadOnly(s) THEN "NotReadOnlyEntry"
    ELSE IF HasBareKeyword(s) THEN "ForbiddenKeyword"
    ELSE "none"

\* C22: validate_read_only reports the first failing check in the order
\* EmptyStatement, MultipleStatements, NoTokens, NotReadOnlyEntry,
\* ForbiddenKeyword; a whitespace-only text is EmptyStatement and a
\* comment-only text is NoTokens.
C22_FirstFailingCheck ==
    Tokenized =>
        /\ gate.verdict.reason = FirstFailedCheck(gate.sql)
        /\ WhitespaceOnly(gate.sql) => gate.verdict.reason = "EmptyStatement"
        /\ CommentOnly(gate.sql) => gate.verdict.reason = "NoTokens"

\* Two statements, the second starting with a denylisted word: the count of
\* statements is reported, not the keyword.
C22_Witness ==
    /\ Tokenized
    /\ HasBareKeyword(gate.sql)
    /\ ~FirstTokenReadOnly(gate.sql)
    /\ gate.verdict.reason = "MultipleStatements"

\* --------------------------------------------------------------- claim C23

\* The request reached the coroutine's own engine call.
Described == Len(run.calls) = 2

\* The second engine call has the text and the params of the first.
SameTextAndParams ==
    /\ run.calls[2] = run.calls[1]
    /\ run.callParams[2] = run.callParams[1]

\* C23 as stated: the column-metadata pass is given the same final text and
\* the same params as the dispatch, and it is metadata-only, so the engine
\* has run the statement once.
C23_AsStated == Described => SameTextAndParams /\ run.ran = 1

\* --------------------------------------------------------------- claim C24

\* What a step may do to the job of request r once its deadline has fired,
\* or in the step that fires it.
LateJobStep(r) ==
    /\ task[r] = "running" => task'[r] \in {"running", "returned", "raised"}
    /\ task[r] = "queued" => task'[r] = "cancelled"
    /\ task[r] \in {"cancelled", "returned", "raised"} => task'[r] = task[r]

\* C24: once QueryTimeout is reported for a request, its running engine call
\* is not stopped and keeps its worker slot until it returns or raises; the
\* late outcome changes neither the reported response nor the request's
\* position and causes no further engine call; a job that was still queued
\* when the deadline fired is cancelled and never runs.
C24_TimedOutWorkerRunsOn ==
    [][\A r \in Reqs :
          /\ (timer[r] = "armed" /\ timer'[r] = "fired") =>
                /\ LateJobStep(r)
                /\ response'[r] = OnQueryTimeout
                /\ calls'[r] = calls[r]
          /\ timer[r] = "fired" =>
                /\ LateJobStep(r)
                /\ task[r] # "queued"
                /\ task[r] = "cancelled" => calls[r] = <<>>
                /\ response'[r] = response[r]
                /\ pc'[r] = pc[r]
                /\ calls'[r] = calls[r]
                /\ timer'[r] = "fired"
          /\ (task[r] = "queued" /\ task'[r] = "running") =>
                Cardinality({q \in Reqs : task[q] = "running"}) < MaxWorkers
      ]_vars

\* One request timed out while its engine call ran and the call returned
\* later; another timed out while still queued behind it and made no call.
C24_Witness ==
    \E r, q \in Reqs :
        /\ r # q
        /\ timer[r] = "fired" /\ task[r] = "returned" /\ Len(calls[r]) = 1
        /\ timer[q] = "fired" /\ task[q] = "cancelled" /\ calls[q] = <<>>

\* ------------------------------------------- the shared connection handle
\*
\* db._connection is one DuckDBPyConnection used by every worker thread and
\* by the event loop thread.  conn.execute(...) returns the connection
\* itself, which holds the result of the last execute on it; result.description
\* and result.fetchall() read whatever result the connection holds when they
\* run.  No lock spans execute and the reads, so each of them is a step of
\* its own.  The result of request r's statement is written r.

HandleJobsRunning ==
    {r \in Reqs : handle.job[r] \in {"started", "executed", "described"}}

\* POST /query arrives: validation passes and the job is handed to the
\* executor (query_service.py lines 159-170).
HandleReceive(r) ==
    /\ handle.co[r] = "idle"
    /\ handle.loop = 0
    /\ r > 1 => handle.co[r - 1] # "idle"
    /\ handle' = [handle EXCEPT !.co[r] = "awaiting", !.job[r] = "queued",
                    !.before[r] = {q \in Reqs : handle.co[q] = "done"}]
    /\ UNCHANGED <<gate, execVars, run, boot, tok, tool>>

\* A free executor thread takes the job and enters db.execute_query.
HandleStart(r) ==
    /\ handle.job[r] = "queued"
    /\ Cardinality(HandleJobsRunning) < HandleWorkers
    /\ handle' = [handle EXCEPT !.job[r] = "started"]
    /\ UNCHANGED <<gate, execVars, run, boot, tok, tool>>

\* db.execute_query: result = conn.execute(final_sql) returns.
HandleExecute(r) ==
    /\ handle.job[r] = "started"
    /\ handle' = [handle EXCEPT !.job[r] = "executed", !.holds = r]
    /\ UNCHANGED <<gate, execVars, run, boot, tok, tool>>

\* db.execute_query: columns = [desc[0] for desc in result.description]
HandleDescription(r) ==
    /\ handle.job[r] = "executed"
    /\ handle' = [handle EXCEPT !.job[r] = "described", !.columns[r] = handle.holds]
    /\ UNCHANGED <<gate, execVars, run, boot, tok, tool>>

\* db.execute_query: rows = result.fetchall(); return columns, rows
HandleFetchall(r) ==
    /\ handle.job[r] = "described"
    /\ handle' = [handle EXCEPT !.job[r] = "returned", !.rows[r] = handle.holds]
    /\ UNCHANGED <<gate, execVars, run, boot, tok, tool>>

\* The deadline of wait_for fires: QueryTimeoutError, answered with 504.  A
\* job not yet started is cancelled, a started one runs on.
HandleTimeout(r) ==
    /\ handle.co[r] = "awaiting"
    /\ handle.loop = 0
    /\ handle.job[r] \in {"queued", "started", "executed", "described"}
    /\ handle' = [handle EXCEPT !.co[r] = "done", !.status[r] = 504,
                    !.job[r] = IF @ = "queued" THEN "cancelled" ELSE @]
    /\ UNCHANGED <<gate, execVars, run, boot, tok, tool>>

\* QueryService.execute_query resumes with the pair and calls conn.execute
\* itself, on the event loop thread.
HandleReexecute(r) ==
    /\ handle.co[r] = "awaiting"
    /\ handle.loop = 0
    /\ handle.job[r] = "returned"
    /\ handle' = [handle EXCEPT !.co[r] = "reexecuted", !.loop = r, !.holds = r]
    /\ UNCHANGED <<gate, execVars, run, boot, tok, tool>>

\* QueryService.execute_query reads result.description and returns the
\* QueryResult, which is sent with status 200.
HandleRespond(r) ==
    /\ handle.co[r] = "reexecuted"
    /\ handle' = [handle EXCEPT !.co[r] = "done", !.loop = 0, !.status[r] = 200,
                    !.meta[r] = handle.holds]
    /\ UNCHANGED <<gate, execVars, run, boot, tok, tool>>

InitHandle == gate = GateIdle /\ InitExec /\ run = RunIdle /\ SideIdle

NextHandle ==
    \/ \E r \in Reqs : HandleReceive(r)
    \/ \E r \in Reqs : HandleStart(r)
    \/ \E r \in Reqs : HandleExecute(r)
    \/ \E r \in Reqs : HandleDescription(r)
    \/ \E r \in Reqs : HandleFetchall(r)
    \/ \E r \in Reqs : HandleTimeout(r)
    \/ \E r \in Reqs : HandleReexecute(r)
    \/ \E r \in Reqs : HandleRespond(r)

SpecHandle == InitHandle /\ [][NextHandle]_vars

\* --------------------------------------------------------------- claim C25

\* C25 as stated: under every interleaving of the requests on the shared
\* handle, the column names, the rows and the column metadata of every
\* successful outcome are those of the request's own statement.
C25_AsStated ==
    \A r \in Reqs :
        handle.status[r] = 200 =>
            handle.columns[r] = r /\ handle.rows[r] = r /\ handle.meta[r] = r

\* --------------------------------------------------------------- claim C26

\* All that the process holds about request r.
PerRequest(r) ==
    <<req[r], verdict[r], limit[r], pc[r], task[r], timer[r], calls[r], response[r]>>

\* The part of the frame that the code keeps (checked under Spec): handling
\* requests leaves the module-level connection reference as it was, a step
\* changes what is held about one request at most, a request's verdict and
\* limit are computed from its own text and max_rows alone, and nothing held
\* about an answered request whose job has ended changes.
RequestFrameKept ==
    [][/\ connection' = connection
       /\ \A r, q \in Reqs :
             (r # q /\ PerRequest(r)' # PerRequest(r)) => PerRequest(q)' = PerRequest(q)
       /\ \A r \in Reqs :
             (pc[r] = "idle" /\ pc'[r] # "idle") =>
                /\ verdict'[r] \in {ValidateReadOnly(req'[r].sql, b) : b \in BOOLEAN}
                /\ Validated(verdict'[r]) =>
                      limit'[r] = LimitFor(req'[r].sql, req'[r].max_rows)
                /\ ~Validated(verdict'[r]) => limit'[r] = NoneVal /\ calls'[r] = <<>>
       /\ \A r \in Reqs :
             (pc[r] = "done" /\ task[r] # "running") => PerRequest(r)' = PerRequest(r)
      ]_vars

\* C26 as stated, in what it says of finished requests: no rows and no
\* columns of a request that was already answered are visible in the outcome
\* of a request received after it.
C26_AsStated ==
    \A r \in Reqs : \A q \in handle.before[r] :
        handle.status[r] = 200 =>
            handle.columns[r] # q /\ handle.rows[r] # q /\ handle.meta[r] # q

\* ------------------------------------------------ the connection lifecycle

TableNames == {"customers", "orders"}

\* settings.tables_list: the names of FABRIC_TABLES, none of them empty.
TableLists ==
    UNION {[1..n -> TableNames] : n \in 0..MaxTables}

\* What the attempt for one table does: both calls succeed, build_table_path
\* raises, or conn.execute(CREATE OR REPLACE VIEW ...) raises.
TableOutcomes == {"ok", "path", "view"}

\* register_fabric_tables, but the first failure ends the loop.
RECURSIVE RegisterFabricTablesStoppingAtFailure(_, _, _, _)
RegisterFabricTablesStoppingAtFailure(tables, outcomes, i, done) ==
    IF i > Len(tables) THEN done
    ELSE IF outcomes[i] = "ok"
    THEN RegisterFabricTablesStoppingAtFailure(tables, outcomes, i + 1,
            [attempts |-> Append(done.attempts, tables[i]),
             views |-> Append(done.views, tables[i])])
    ELSE [attempts |-> Append(done.attempts, tables[i]), views |-> done.views]

\* register_fabric_tables from table i on: for each name, build the path and
\* create the view; an exception of either is logged and the loop goes on.
\* An empty list returns at once.
RECURSIVE RegisterFabricTables(_, _, _, _)
RegisterFabricTables(tables, outcomes, i, done) ==
    IF i > Len(tables) THEN done
    ELSE RegisterFabricTables(tables, outcomes, i + 1,
            [attempts |-> Append(done.attempts, tables[i]),
             views |-> IF outcomes[i] = "ok"
                       THEN Append(done.views, tables[i]) ELSE done.views])

\* Where initialize_duckdb can raise: duckdb.connect, the settings and
\* extensions, get_access_token / CREATE SECRET / the delta extension.
InitFailures == {"connect", "settings", "secret"}

\* lifespan startup: initialize_duckdb as a whole.  _connection is assigned
\* as soon as duckdb.connect returns; an exception after that leaves it
\* assigned and makes the startup fail.
BootInitialize(failAt, outcomes) ==
    /\ boot.pc = "idle"
    /\ DOMAIN outcomes = DOMAIN boot.tables
    /\ IF failAt = "none"
       THEN LET reg == RegisterFabricTables(boot.tables, outcomes, 1,
                          [attempts |-> <<>>, views |-> <<>>])
            IN  boot' = [boot EXCEPT !.pc = "ready", !.connection = "open",
                           !.outcomes = outcomes,
                           !.attempts = reg.attempts, !.views = reg.views]
       ELSE boot' = [boot EXCEPT !.pc = "failed", !.failedAt = failAt,
                       !.connection = IF failAt = "connect" THEN "None" ELSE "open"]
    /\ UNCHANGED <<gate, execVars, run, tok, handle, tool>>

\* db.get_connection()
GetConnection(conn) == IF conn = "None" THEN "RuntimeError" ELSE "handle"

\* Some caller calls db.get_connection in the present state.
BootGetConnection ==
    /\ boot' = [boot EXCEPT !.got = [result |-> GetConnection(boot.connection),
                                      at |-> boot.pc]]
    /\ UNCHANGED <<gate, execVars, run, tok, handle, tool>>

\* A request is served after startup: its job gets the handle and is inside
\* conn.execute.
BootRequest ==
    /\ boot.pc = "ready"
    /\ boot.request = "none"
    /\ GetConnection(boot.connection) = "handle"
    /\ boot' = [boot EXCEPT !.request = "running"]
    /\ UNCHANGED <<gate, execVars, run, tok, handle, tool>>

\* The request's deadline fires; it is answered and its job runs on.
BootRequestTimeout ==
    /\ boot.request = "running"
    /\ boot' = [boot EXCEPT !.request = "orphan"]
    /\ UNCHANGED <<gate, execVars, run, tok, handle, tool>>

\* The job's engine call ends.
BootRequestEnd ==
    /\ boot.request \in {"running", "orphan"}
    /\ boot' = [boot EXCEPT !.request = "ended"]
    /\ UNCHANGED <<gate, execVars, run, tok, handle, tool>>

\* db.close_connection(): called by the lifespan's shutdown once no request
\* is awaited any more, and possibly again.
BootClose ==
    /\ boot.pc \in {"ready", "closed"}
    /\ boot.request # "running"
    /\ boot.closes < MaxCloses
    /\ boot' = [boot EXCEPT !.pc = "closed", !.connection = "None",
                            !.closes = @ + 1]
    /\ UNCHANGED <<gate, execVars, run, tok, handle, tool>>

InitBoot ==
    /\ gate = GateIdle
    /\ InitExec
    /\ run = RunIdle
    /\ tok = TokIdle
    /\ handle = HandleIdle
    /\ tool = ToolIdle
    /\ boot \in {[BootIdle EXCEPT !.tables = tables] : tables \in TableLists}

NextBoot ==
    \/ \E failAt \in InitFailures \cup {"none"},
          outcomes \in UNION {[1..n -> TableOutcomes] : n \in 0..MaxTables} :
          BootInitialize(failAt, outcomes)
    \/ BootGetConnection
    \/ BootRequest
    \/ BootRequestTimeout
    \/ BootRequestEnd
    \/ BootClose

SpecBoot == InitBoot /\ [][NextBoot]_vars

\* --------------------------------------------------------------- claim C27

\* C27 as stated: get_connection returns a handle exactly in the state where
\* initialize_duckdb has completed and close_connection has not been called,
\* and raises RuntimeError in every other state; and no engine call of a
\* request is running on a handle that is not initialized or is closed.
C27_AsStated ==
    /\ boot.got.result = "handle" => boot.got.at = "ready"
    /\ boot.got.result = "RuntimeError" => boot.got.at \in {"idle", "failed", "closed"}
    /\ boot.request \in {"running", "orphan"} => boot.pc = "ready"

\* --------------------------------------------------------------- claim C28

\* The names of the tables whose attempt succeeded, in list order.
RECURSIVE RegisteredNames(_, _)
RegisteredNames(tables, outcomes) ==
    IF tables = <<>> THEN <<>>
    ELSE (IF Head(outcomes) = "ok" THEN <<Head(tables)>> ELSE <<>>)
         \o RegisteredNames(Tail(tables), Tail(outcomes))

\* C28: when initialize_duckdb gets as far as register_fabric_tables, every
\* name of the list is attempted once and in list order, whatever attempts
\* failed; the views created are those of the attempts that succeeded; no
\* failure of an attempt makes the startup fail; an empty list makes no
\* attempt and creates no view.
C28_EveryTableAttempted ==
    /\ boot.pc \in {"ready", "closed"} =>
          /\ boot.attempts = boot.tables
          /\ boot.views = RegisteredNames(boot.tables, boot.outcomes)
          /\ boot.tables = <<>> => boot.attempts = <<>> /\ boot.views = <<>>
    /\ boot.pc = "failed" => boot.failedAt \in InitFailures /\ boot.attempts = <<>>

\* Two tables, the first fails at its view and the second is registered.
C28_Witness ==
    /\ boot.pc = "ready"
    /\ Len(boot.tables) = 2
    /\ boot.outcomes = <<"view", "ok">>
    /\ boot.attempts = boot.tables
    /\ boot.views = <<boot.tables[2]>>

\* ------------------------------------------------------ the access token

\* Seconds before expires_on from which _load_cached_token ignores the file.
TOKEN_BUFFER == 300

\* The expires_on values of the token files of the specification; 0 stands
\* for a file without expires_on.
FileExpiries == {0, TOKEN_BUFFER - 1, TOKEN_BUFFER, TOKEN_BUFFER + 1, 2 * TOKEN_BUFFER + 1}

\* The .azure_token files: none, or one with an expires_on and with or
\* without a token.
TokenFiles ==
    {[exists |-> FALSE, data |-> NoToken]} \cup
    {[exists |-> TRUE, data |-> [token |-> t, expires_on |-> e]] :
        t \in {"None", "file"}, e \in FileExpiries}

\* FabricClient._load_cached_token at time now: the file's token, or None.
LoadCachedToken(file, now) ==
    IF ~file.exists THEN NoToken
    ELSE IF file.data.expires_on = 0 THEN NoToken
    ELSE IF now >= file.data.expires_on - TOKEN_BUFFER THEN NoToken
    ELSE file.data

\* FabricClient.get_access_token: the token in memory if there is one, else
\* the file's if _load_cached_token gives one, else a token of the
\* credential; each of the latter is kept in memory.  An exception of the
\* credential is re-raised.
TokGetAccessToken(credentialRaises) ==
    /\ LET cached == LoadCachedToken(tok.file, tok.clock)
           fresh == [token |-> "credential", expires_on |-> tok.clock + FreshLifetime]
       IN  IF tok.access_token.token # "None"
           THEN tok' = [tok EXCEPT !.returned = [outcome |-> "memory",
                           value |-> tok.access_token, at |-> tok.clock]]
           ELSE IF cached.token # "None"
           THEN tok' = [tok EXCEPT !.access_token = cached,
                           !.returned = [outcome |-> "file", value |-> cached,
                                         at |-> tok.clock]]
           ELSE IF credentialRaises
           THEN tok' = [tok EXCEPT !.returned = [outcome |-> "raised",
                           value |-> NoToken, at |-> tok.clock]]
           ELSE tok' = [tok EXCEPT !.access_token = fresh,
                           !.returned = [outcome |-> "credential", value |-> fresh,
                                         at |-> tok.clock]]
    /\ UNCHANGED <<gate, execVars, run, boot, handle, tool>>

\* Time passes.
TokTick ==
    /\ tok.clock + TOKEN_BUFFER <= MaxClock
    /\ tok' = [tok EXCEPT !.clock = @ + TOKEN_BUFFER]
    /\ UNCHANGED <<gate, execVars, run, boot, handle, tool>>

InitToken ==
    /\ gate = GateIdle
    /\ InitExec
    /\ run = RunIdle
    /\ boot = BootIdle
    /\ handle = HandleIdle
    /\ tool = ToolIdle
    /\ tok \in {[TokIdle EXCEPT !.file = f] : f \in TokenFiles}

NextToken ==
    \/ \E credentialRaises \in BOOLEAN : TokGetAccessToken(credentialRaises)
    \/ TokTick

SpecToken == InitToken /\ [][NextToken]_vars

\* --------------------------------------------------------------- claim C29

\* A call of get_access_token returned a token.
ReturnedToken == tok.returned.outcome \in {"memory", "file", "credential"}

\* C29 as stated: a token of the cache file is returned only while the time
\* is more than 300 seconds before its expires_on, and the token every call
\* returns, the first and the later ones, is unexpired when it is returned.
C29_AsStated ==
    /\ tok.returned.outcome = "file" =>
          tok.returned.at < tok.returned.value.expires_on - TOKEN_BUFFER
    /\ ReturnedToken => tok.returned.at < tok.returned.value.expires_on

\* ------------------------------------------------ the MCP query_duckdb tool
\*
\* The sql argument is a sequence of atoms: a word or mark (w) or an integer
\* literal (n).

Word(w) == [w |-> w, n |-> 0]

Num(n) == [w |-> "#", n |-> n]

Words(ws) == [i \in DOMAIN ws |-> Word(ws[i])]

\* str.lower() of an atom of the tool's texts.
ToolLower(a) == IF a.w = "LIMIT" THEN Word("limit") ELSE a

\* str.strip() of the sql argument.
RECURSIVE ToolStrip(_)
ToolStrip(sql) ==
    IF sql # <<>> /\ Head(sql) = Word(" ") THEN ToolStrip(Tail(sql))
    ELSE IF sql # <<>> /\ sql[Len(sql)] = Word(" ")
    THEN ToolStrip(SubSeq(sql, 1, Len(sql) - 1))
    ELSE sql

\* "limit" in sql.lower(): the letters occur somewhere in the text, as the
\* keyword or inside a longer name.
ContainsLimit(sql) ==
    \E i \in 1..Len(sql) : ToolLower(sql[i]).w \in {"limit", "credit_limit"}

\* The sql arguments of the specification.
ToolSampleSql ==
    { <<>>,
      Words(<<" ", " ">>),
      Words(<<"select", " ", "t">>),
      Words(<<" ", "select", " ", "t", " ">>),
      Words(<<"select", " ", "t", " ", "LIMIT", " ">>) \o <<Num(5)>>,
      Words(<<"select", " ", "t", " ", "limit", " ">>) \o <<Num(10000)>>,
      Words(<<"select", " ", "t", " ", "LIMIT", " ">>) \o <<Num(50000)>>,
      Words(<<"select", " ", "credit_limit", " ", "from", " ", "t">>) }

\* The limit arguments: absent, null, or an integer.
ToolLimitArgs ==
    {[kind |-> "absent", val |-> 0], [kind |-> "null", val |-> 0]} \cup
    {[kind |-> "int", val |-> n] : n \in {-5, 0, 50, 100, 10000, 10001}}

\* arguments.get("limit", 100)
LimitArgument(arg) == IF arg.kind = "absent" THEN 100 ELSE arg.val

\* min(x, 10000)
Min10000(x) == IF x < 10000 THEN x ELSE 10000

\* The text execute_query of the tool posts: f"{sql} LIMIT {limit}" when the
\* letters "limit" do not occur in the stripped text, else the stripped text.
ToolFinalSql(sql, arg) ==
    IF ~ContainsLimit(ToolStrip(sql))
    THEN ToolStrip(sql) \o Words(<<" ", "LIMIT", " ">>)
         \o <<Num(Min10000(LimitArgument(arg)))>>
    ELSE ToolStrip(sql)

\* call_tool("query_duckdb", arguments) up to the HTTP request: min() of a
\* null limit raises TypeError, an empty text raises ValueError, and
\* call_tool turns either into an error text; otherwise the text is posted.
ToolCall ==
    /\ tool.pc = "called"
    /\ IF tool.arguments.limit.kind = "null" \/ ToolStrip(tool.arguments.sql) = <<>>
       THEN tool' = [tool EXCEPT !.pc = "done", !.reply = "Error"]
       ELSE tool' = [tool EXCEPT !.pc = "posted",
                       !.posted = Append(@, ToolFinalSql(tool.arguments.sql,
                                                          tool.arguments.limit))]
    /\ UNCHANGED <<gate, execVars, run, boot, tok, handle>>

\* The API answers: the result is formatted, or raise_for_status raises and
\* call_tool returns the error text.
ToolReply(ok) ==
    /\ tool.pc = "posted"
    /\ tool' = [tool EXCEPT !.pc = "done", !.reply = IF ok THEN "Result" ELSE "Error"]
    /\ UNCHANGED <<gate, execVars, run, boot, tok, handle>>

InitTool ==
    /\ gate = GateIdle
    /\ InitExec
    /\ run = RunIdle
    /\ boot = BootIdle
    /\ tok = TokIdle
    /\ handle = HandleIdle
    /\ tool \in {[ToolIdle EXCEPT !.pc = "called",
                                  !.arguments = [sql |-> sql, limit |-> arg]] :
                   sql \in ToolSampleSql, arg \in ToolLimitArgs}

NextTool ==
    \/ ToolCall
    \/ \E ok \in BOOLEAN : ToolReply(ok)

SpecTool == InitTool /\ [][NextTool]_vars

\* --------------------------------------------------------------- claim C30

\* The row counts of the LIMIT clauses of a text: the integer after a LIMIT
\* keyword.
LimitClauses(sql) ==
    {sql[i + 2].n : i \in {j \in 1..(Len(sql) - 2) :
                              /\ ToolLower(sql[j]) = Word("limit")
                              /\ sql[j + 1] = Word(" ")
                              /\ sql[j + 2].w = "#"}}

\* C30 as stated: every text the tool posts has a LIMIT clause, of at most
\* 10000 rows; a text without one got LIMIT min(limit or 100, 10000)
\* appended and a text with one is posted as given (stripped); an empty or
\* whitespace-only sql makes no HTTP request.
C30_AsStated ==
    /\ \A k \in 1..Len(tool.posted) :
          /\ LimitClauses(tool.posted[k]) # {}
          /\ \A n \in LimitClauses(tool.posted[k]) : n <= 10000
    /\ tool.pc \in {"posted", "done"} /\ ToolStrip(tool.arguments.sql) = <<>> =>
          tool.posted = <<>>

=============================================================================
